---- MODULE Spec2Model ----
(***************************************************************************)
(* Model of src/main.c: an interactive shell with `cd`, `<` / `>`          *)
(* redirection of the shell's own standard streams, and a single pipe.     *)
(*                                                                         *)
(* A line is a sequence of characters; a token is a sequence of            *)
(* characters; the argument array holds POINTERS (1..n, 0 = NULL) to the   *)
(* strings that parse_cmd strdup'ed, so that aliasing after compaction is  *)
(* visible.  C arrays keep their 0-based indices (functions on 0..n).      *)
(*                                                                         *)
(* Input acquisition (getline) is an environment step: every iteration of  *)
(* the loop may receive any line of Lines.                                 *)
(***************************************************************************)
EXTENDS Integers, Sequences, FiniteSets, TLC

\* ------------------------------------------------------------------ bounds
MaxTokens == 3      \* longest line with a pipe, in tokens
MaxPlainTokens == 4 \* longest line without pipe symbol, in tokens
MaxRawLen == 4      \* longest line typed with arbitrary spacing, in characters
MaxLongTokens == 21 \* longest line of plain words, in tokens
PipeCap   == 1      \* chunks the pipe buffer holds before a writer blocks
MaxWrites == 1      \* chunks the left program writes at most

\* ------------------------------------------------------------ vocabulary
NULL == 0
EXIT_FAILURE == 1
SIGSEGV_STATUS == 128 + 11           \* status of a child killed by SIGSEGV
SIGPIPE_STATUS == 128 + 13           \* status of a child killed by SIGPIPE
CD   == <<"c", "d">>
LT   == <<"<">>
GT   == <<">">>
BAR  == <<"|">>
WORD == <<"f">>                      \* an ordinary word: program, file or directory
Tokens == {CD, WORD, LT, GT, BAR}
DirNames == {WORD}                   \* the names that may be directories; chdir to any other fails
Delims == {" ", "\n"}                \* strtok(input, " \n")
InitialCapacity == 10                \* size_t capacity = 10

QuitLine == <<"q", "u", "i", "t", "\n">>
HelpLine == <<"h", "e", "l", "p", "\n">>

RECURSIVE Join(_)
\* the raw line for a token sequence: tokens separated by one space, then newline
Join(ts) ==
  IF ts = <<>> THEN <<"\n">>
  ELSE IF Len(ts) = 1 THEN Head(ts) \o <<"\n">>
  ELSE Head(ts) \o <<" ">> \o Join(Tail(ts))

TokSeqs == UNION {[1..k -> Tokens] : k \in 0..MaxTokens}
\* longer lines without pipe symbol
PlainSeqs == UNION {[1..k -> Tokens \ {BAR}] : k \in (MaxTokens + 1)..MaxPlainTokens}
\* long lines of plain words, around the capacities of the argument array
LongSeqs == {[i \in 1..k |-> WORD] : k \in (MaxPlainTokens + 1)..MaxLongTokens}
\* lines as typed: any spacing, metacharacters inside longer tokens
RawChars == {" ", "f", ">", "|"}
RawLines == {r \o <<"\n">> : r \in UNION {[1..k -> RawChars] : k \in 0..MaxRawLen}}
Lines   == {Join(ts) : ts \in TokSeqs \cup PlainSeqs \cup LongSeqs}
             \cup RawLines \cup {QuitLine, HelpLine}

\* strncmp(input, lit, 5) == 0 for a 5-character literal
strncmp5(input, lit) == Len(input) >= 5 /\ SubSeq(input, 1, 5) = lit

\* ------------------------------------------------------------- tokenizer
RECURSIVE SkipDelims(_, _)
SkipDelims(s, p) ==
  IF p <= Len(s) /\ s[p] \in Delims THEN SkipDelims(s, p + 1) ELSE p

\* mutant of TokenEnd: every token ends after its first character
TokenEnd_one_char(s, p) == p + 1

RECURSIVE TokenEnd(_, _)
TokenEnd(s, p) ==
  IF p <= Len(s) /\ s[p] \notin Delims THEN TokenEnd(s, p + 1) ELSE p

RECURSIVE strtok_loop(_, _, _, _)
\* the while loop of parse_cmd: one strdup'ed token per strtok call, the
\* capacity doubled when the array is full before the store.  t: the tokens,
\* capacity: the slots allocated when the loop ends
strtok_loop(s, p, acc, cap) ==
  LET b == SkipDelims(s, p) IN
  IF b > Len(s) THEN [t |-> acc, capacity |-> cap]
  ELSE LET e == TokenEnd(s, b) IN
       strtok_loop(s, e, Append(acc, SubSeq(s, b, e - 1)),
                   IF Len(acc) >= cap THEN cap * 2 ELSE cap)

Tokenize(input) == strtok_loop(input, 1, <<>>, InitialCapacity)

\* ----------------------------------------------------------------- state
Children == {"single", "left", "right"}
FORK_ERR == "-1"                     \* fork()'s return value on failure
Procs    == {"shell"} \cup Children

VARIABLES
  pc,          \* where the shell process is
  toks,        \* heap: the strings parse_cmd strdup'ed, by pointer 1..n0
  n0,          \* parse_cmd's num_args (never changed by execute_cmd)
  args,        \* the argument array: slot -> pointer (0 = NULL)
  num_args,    \* execute_cmd's num_args (its own copy, decremented by compaction)
  pathAlloc,   \* redirection path strings strdup'ed and not yet freed
  stdinB,      \* what the shell's stdin is bound to
  stdoutB,     \* what the shell's stdout is bound to
  cwd,         \* the shell's working directory
  pid1, pid2,  \* fork results of execute_pipe ("unset", FORK_ERR, or the child)
  cst,         \* per child: its position
  argv,        \* per child: the vector handed to execvp
  status,      \* per child: exit status
  plan,        \* per child: what the exec'ed program will do
  fds,         \* per process: which pipe descriptors it holds open
  buf,         \* chunks in the pipe
  spawned,     \* line history: children forked for this line
  reaped,      \* line history: how often each child was reaped
  builtin,     \* line history: the cd built-in ran
  chdirReq,    \* line history: chdir() was called
  diag,        \* line history: diagnostics written to stderr
  reopened,    \* line history: streams freopen() was called on
  synerr,      \* line history: a redirection scan hit a syntax error
  openfail,    \* line history: a redirect target failed to open
  deref0,      \* line history: args[0] was read as the command name
  cwd0,        \* line history: the working directory when the line was read
  line,        \* the line getline returned, as it was before strtok cut it
  capacity,    \* parse_cmd's capacity: the slots allocated for the argument array
  freed,       \* per string of the last line: how often the free loop freed it
  input_file,  \* execute_cmd's input_file: the path strdup'ed, <<>> for NULL
  output_file  \* execute_cmd's output_file: the path strdup'ed, <<>> for NULL

lineVars  == <<toks, n0, args, num_args>>
memVars   == <<line, capacity, freed, input_file, output_file>>
procVars  == <<cst, argv, status, plan>>
pipeVars  == <<pid1, pid2, fds, buf>>
histVars  == <<spawned, reaped, builtin, chdirReq, diag, reopened, synerr, openfail, deref0, cwd0>>
shellVars == <<pathAlloc, stdinB, stdoutB, cwd>>
vars == <<pc, lineVars, memVars, procVars, pipeVars, histVars, shellVars>>

\* shell positions from which it never takes another step
Dead == {"done", "exited", "crashed"}
\* positions of the shell's own code
ShellPCs == {"read", "execute_cmd", "redirect_input", "open_input",
             "redirect_output", "open_output", "dispatch",
             "fork", "wait", "pipe", "fork1", "fork2", "close0", "close1",
             "wait1", "wait2", "cleanup", "prompt"} \cup Dead

Str(p) == toks[p]                       \* the string a non-NULL pointer points to
\* what execvp reads of a vector: the strings before its first NULL slot
ExecView(a) ==
  LET end == CHOOSE i \in DOMAIN a : a[i] = NULL /\ \A j \in DOMAIN a : a[j] = NULL => i <= j
  IN  [k \in 1..end |-> Str(a[k - 1])]

Init ==
  /\ pc = "read"
  /\ toks = <<>> /\ n0 = 0 /\ args = [i \in 0..0 |-> NULL] /\ num_args = 0
  /\ pathAlloc = {}
  /\ stdinB = "tty" /\ stdoutB = "tty"
  /\ cwd = <<"/">>
  /\ pid1 = "unset" /\ pid2 = "unset"
  /\ cst = [c \in Children |-> "none"]
  /\ argv = [c \in Children |-> <<>>]
  /\ status = [c \in Children |-> 0]
  /\ plan = [c \in Children |-> 0]
  /\ fds = [p \in Procs |-> {}]
  /\ buf = 0
  /\ spawned = {} /\ reaped = [c \in Children |-> 0]
  /\ builtin = FALSE /\ chdirReq = FALSE /\ diag = {} /\ reopened = {}
  /\ synerr = FALSE /\ openfail = FALSE /\ deref0 = FALSE
  /\ cwd0 = cwd
  /\ line = <<>> /\ capacity = 0 /\ freed = <<>>
  /\ input_file = <<>> /\ output_file = <<>>

\* ------------------------------------------------------------- main loop
\* main: getline returned "quit\n"
Quit ==
  /\ pc = "read"
  /\ \E l \in Lines : strncmp5(l, QuitLine)
  /\ pc' = "done"
  /\ UNCHANGED <<memVars, lineVars, procVars, pipeVars, histVars, shellVars>>

\* main: getline returned "help\n": execute_help prints and the loop continues
execute_help ==
  /\ pc = "read"
  /\ \E l \in Lines : ~strncmp5(l, QuitLine) /\ strncmp5(l, HelpLine)
  /\ pc' = "read"
  /\ UNCHANGED <<memVars, lineVars, procVars, pipeVars, histVars, shellVars>>

\* main + parse_cmd up to the call of execute_cmd: tokenize the line
\* The sentinel store args[num_args] = NULL falls outside the allocation when
\* the array is exactly full; that store is undefined: nothing shows, or the
\* heap is damaged and the shell dies
parse_cmd ==
  /\ pc = "read"
  /\ \E l \in Lines :
       /\ ~strncmp5(l, QuitLine) /\ ~strncmp5(l, HelpLine)
       /\ line' = l
       /\ LET r == Tokenize(l) IN
          /\ toks' = r.t
          /\ capacity' = r.capacity
          /\ n0' = Len(r.t)
          /\ num_args' = Len(r.t)
          /\ args' = [i \in 0..Len(r.t) |-> IF i < Len(r.t) THEN i + 1 ELSE NULL]
          /\ \/ pc' = "execute_cmd"
             \/ Len(r.t) >= r.capacity /\ pc' = "crashed"
  /\ UNCHANGED <<freed, input_file, output_file, procVars, pipeVars, histVars, shellVars>>

\* ------------------------------------------------------ pure functions
\* index of the first slot below n whose string is sym, or -1
FirstIdx(n, a, sym) ==
  LET S == {i \in 0..(n - 1) : a[i] # NULL /\ Str(a[i]) = sym} IN
  IF S = {} THEN -1 ELSE CHOOSE i \in S : \A j \in S : i <= j

\* mutant of find_pipe_idx: the scan keeps going and returns the LAST pipe symbol
find_pipe_idx_last(n, a) ==
  LET S == {i \in 0..(n - 1) : a[i] # NULL /\ Str(a[i]) = BAR} IN
  IF S = {} THEN -1 ELSE CHOOSE i \in S : \A j \in S : i >= j

find_pipe_idx(n, a) == FirstIdx(n, a, BAR)

is_valid_redirection(i, n, a) ==
  i + 1 < n /\ Head(Str(a[i + 1])) # "<" /\ Head(Str(a[i + 1])) # ">"

\* mutant of Compact: the loop shifts by one slot, args[j] = args[j + 1]
Compact_shift_one(i, n, a) ==
  [j \in DOMAIN a |->
     IF j >= i /\ j < n - 2 THEN a[j + 1]
     ELSE IF j = n - 2 THEN NULL
     ELSE a[j]]

\* the shifting loop, the decrement and the new sentinel: args[j] = args[j + 2]
\* for j = i .. n-3 (each source slot is read before it is overwritten), then
\* args[n - 2] = NULL
Compact(i, n, a) ==
  [j \in DOMAIN a |->
     IF j >= i /\ j < n - 2 THEN a[j + 2]
     ELSE IF j = n - 2 THEN NULL
     ELSE a[j]]

\* redirect_input / redirect_output for symbol sym.  ret: the return value;
\* syn: the syntax-error branch was taken; bad: the pointer handed to fprintf's %s
\* there (NULL when the symbol is the last token); file: the strdup'ed path
redirect_scan(sym, n, a) ==
  LET i == FirstIdx(n, a, sym) IN
  IF i = -1
    THEN [ret |-> FALSE, syn |-> FALSE, bad |-> NULL, file |-> <<>>, n |-> n, a |-> a]
  ELSE IF ~is_valid_redirection(i, n, a)
    THEN [ret |-> FALSE, syn |-> TRUE, bad |-> a[i + 1], file |-> <<>>, n |-> n, a |-> a]
  ELSE [ret |-> TRUE, syn |-> FALSE, bad |-> NULL, file |-> Str(a[i + 1]),
        n |-> n - 2, a |-> Compact(i, n, a)]

redirect_input(n, a)  == redirect_scan(LT, n, a)
redirect_output(n, a) == redirect_scan(GT, n, a)

\* parse_cmd's free loop frees some string twice
DoubleFree(n, a) ==
  \E i, j \in 0..(n - 1) : i # j /\ a[i] # NULL /\ a[i] = a[j]

\* parse_cmd's free loop, free(args[i]) for i < num_args: how often each
\* string of the line is freed (free(NULL) frees nothing)
free_loop(n, a) ==
  [p \in 1..Len(toks) |-> Cardinality({i \in 0..(n - 1) : a[i] = p})]

\* ------------------------------------------------------ execute_cmd
\* execute_cmd, entry: the empty vector returns, a pipe goes to execute_pipe
execute_cmd ==
  /\ pc = "execute_cmd"
  /\ pc' = IF num_args = 0 THEN "cleanup"
           ELSE IF find_pipe_idx(num_args, args) # -1 THEN "pipe"
           ELSE "redirect_input"
  /\ UNCHANGED <<memVars, lineVars, procVars, pipeVars, histVars, shellVars>>

\* the call redirect_x(&num_args, args, &x_file) with its diagnostic.  Printing
\* a NULL pointer with %s is undefined: the line is printed as "(null)" or the
\* shell dies
RedirectCall(r, which, okpc, nextpc) ==
  /\ args' = r.a
  /\ num_args' = r.n
  /\ input_file' = IF r.ret /\ which = "input_file" THEN r.file ELSE input_file
  /\ output_file' = IF r.ret /\ which = "output_file" THEN r.file ELSE output_file
  /\ synerr' = (synerr \/ r.syn)
  /\ pathAlloc' = IF r.ret THEN pathAlloc \cup {which} ELSE pathAlloc
  /\ \/ /\ pc' = IF r.ret THEN okpc ELSE nextpc
        /\ diag' = IF r.syn THEN diag \cup {"Syntax error"} ELSE diag
     \/ /\ r.syn /\ r.bad = NULL
        /\ pc' = "crashed"
        /\ diag' = diag
  /\ UNCHANGED <<line, capacity, freed, toks, n0, procVars, pipeVars, stdinB, stdoutB, cwd,
                 spawned, reaped, builtin, chdirReq, reopened, openfail, deref0, cwd0>>

RedirectInput ==
  /\ pc = "redirect_input"
  /\ RedirectCall(redirect_input(num_args, args), "input_file", "open_input", "redirect_output")

RedirectOutput ==
  /\ pc = "redirect_output"
  /\ RedirectCall(redirect_output(num_args, args), "output_file", "open_output", "dispatch")

\* freopen(input_file, "r", stdin) and the free of the path on both branches
OpenInput ==
  /\ pc = "open_input"
  /\ reopened' = reopened \cup {"stdin"}
  /\ pathAlloc' = pathAlloc \ {"input_file"}
  /\ \E ok \in BOOLEAN :
       IF ok THEN /\ stdinB' = "file" /\ pc' = "redirect_output"
                  /\ UNCHANGED <<diag, openfail>>
       ELSE /\ stdinB' = "closed" /\ pc' = "cleanup"
            /\ diag' = diag \cup {"Failed to redirect input"}
            /\ openfail' = TRUE
  /\ UNCHANGED <<memVars, lineVars, procVars, pipeVars, stdoutB, cwd,
                 spawned, reaped, builtin, chdirReq, synerr, deref0, cwd0>>

\* freopen(output_file, "w", stdout) and the free of the path on both branches
OpenOutput ==
  /\ pc = "open_output"
  /\ reopened' = reopened \cup {"stdout"}
  /\ pathAlloc' = pathAlloc \ {"output_file"}
  /\ \E ok \in BOOLEAN :
       IF ok THEN /\ stdoutB' = "file" /\ pc' = "dispatch"
                  /\ UNCHANGED <<diag, openfail>>
       ELSE /\ stdoutB' = "closed" /\ pc' = "cleanup"
            /\ diag' = diag \cup {"Failed to redirect output"}
            /\ openfail' = TRUE
  /\ UNCHANGED <<memVars, lineVars, procVars, pipeVars, stdinB, cwd,
                 spawned, reaped, builtin, chdirReq, synerr, deref0, cwd0>>

\* the body of `if (strcmp(args[0], "cd") == 0)`
cd_builtin ==
  /\ builtin' = TRUE
  /\ pc' = "cleanup"
  /\ IF num_args < 2
       THEN /\ diag' = diag \cup {"cd: missing operand"}
            /\ UNCHANGED <<cwd, chdirReq>>
       ELSE /\ chdirReq' = TRUE
            /\ \E ok \in (IF Str(args[1]) \in DirNames THEN BOOLEAN ELSE {FALSE}) :
                 IF ok THEN cwd' = Str(args[1]) /\ diag' = diag
                 ELSE cwd' = cwd /\ diag' = diag \cup {"cd"}

\* mutant of is_cd: the built-in is never recognized
is_cd_never(a) == FALSE

\* the test strcmp(args[0], "cd"): is the command the built-in?
is_cd(a) == Str(a[0]) = CD

\* strcmp(args[0], "cd") and the cd built-in.  With an empty vector args[0] is
\* the NULL sentinel and the comparison is undefined: the shell dies, or the
\* comparison yields either answer
Dispatch ==
  /\ pc = "dispatch"
  /\ deref0' = TRUE
  /\ IF args[0] = NULL
       THEN \/ pc' = "crashed" /\ UNCHANGED <<builtin, chdirReq, diag, cwd>>
            \/ cd_builtin
            \/ pc' = "fork" /\ UNCHANGED <<builtin, chdirReq, diag, cwd>>
     ELSE IF is_cd(args)
       THEN cd_builtin
     ELSE pc' = "fork" /\ UNCHANGED <<builtin, chdirReq, diag, cwd>>
  /\ UNCHANGED <<memVars, lineVars, procVars, pipeVars, pathAlloc, stdinB, stdoutB,
                 spawned, reaped, reopened, synerr, openfail, cwd0>>

\* a successful fork: the child starts at `at` with a copy of the descriptors
Spawn(c, at, v) ==
  /\ cst' = [cst EXCEPT ![c] = at]
  /\ argv' = [argv EXCEPT ![c] = v]
  /\ fds' = [fds EXCEPT ![c] = fds["shell"]]
  /\ spawned' = spawned \cup {c}

\* pid = fork() of the single-command path; a failure is fatal here
Fork ==
  /\ pc = "fork"
  /\ \/ /\ Spawn("single", "exec", ExecView(args))
        /\ pc' = "wait"
        /\ diag' = diag
     \/ /\ pc' = "exited"
        /\ diag' = diag \cup {"fork"}
        /\ UNCHANGED <<cst, argv, fds, spawned>>
  /\ UNCHANGED <<memVars, lineVars, status, plan, pid1, pid2, buf, shellVars,
                 reaped, builtin, chdirReq, reopened, synerr, openfail, deref0, cwd0>>

Live == {c \in Children : cst[c] \notin {"none", "reaped"}}

\* a terminated child is reaped; its exit status is stored nowhere the shell reads
Reap(c) ==
  /\ cst' = [cst EXCEPT ![c] = "reaped"]
  /\ status' = [status EXCEPT ![c] = 0]
  /\ reaped' = [reaped EXCEPT ![c] = @ + 1]

\* freopen("/dev/tty", ...) of one stream: bound to the terminal, or (freopen
\* failed) closed
Restored(ok) == IF ok THEN "tty" ELSE "closed"

\* waitpid(pid, &status, 0) and the two restoring freopen calls
Wait ==
  /\ pc = "wait"
  /\ cst["single"] = "zombie"
  /\ Reap("single")
  /\ reopened' = reopened \cup {"stdin", "stdout"}
  /\ \E okIn, okOut \in BOOLEAN :
       /\ stdinB' = Restored(okIn)
       /\ stdoutB' = Restored(okOut)
       /\ diag' = diag \cup (IF okIn THEN {} ELSE {"Restoring stdin failed"})
                       \cup (IF okOut THEN {} ELSE {"Restoring stdout failed"})
  /\ pc' = "cleanup"
  /\ UNCHANGED <<memVars, lineVars, argv, plan, pipeVars, pathAlloc, cwd,
                 spawned, builtin, chdirReq, synerr, openfail, deref0, cwd0>>

\* the free loop of parse_cmd.  Freeing a string twice is undefined: the
\* allocator aborts the shell, or nothing shows
Cleanup ==
  /\ pc = "cleanup"
  /\ freed' = free_loop(n0, args)
  /\ \/ pc' = "prompt"
     \/ DoubleFree(n0, args) /\ pc' = "crashed"
  /\ UNCHANGED <<line, capacity, input_file, output_file,
                 lineVars, procVars, pipeVars, histVars, shellVars>>

\* main: back at the head of the loop, the prompt is printed.  The line's
\* strings, array and history are gone, and so is a pipe that no descriptor
\* refers to
Prompt ==
  /\ pc = "prompt"
  /\ pc' = "read"
  /\ toks' = <<>> /\ n0' = 0 /\ args' = [i \in 0..0 |-> NULL] /\ num_args' = 0
  /\ line' = <<>> /\ capacity' = 0 /\ freed' = <<>>
  /\ input_file' = <<>> /\ output_file' = <<>>
  /\ cst' = [c \in Children |-> IF cst[c] = "reaped" THEN "none" ELSE cst[c]]
  /\ argv' = [c \in Children |-> IF cst[c] = "reaped" THEN <<>> ELSE argv[c]]
  /\ status' = [c \in Children |-> IF cst[c] = "reaped" THEN 0 ELSE status[c]]
  /\ plan' = [c \in Children |-> IF cst[c] = "reaped" THEN 0 ELSE plan[c]]
  /\ pid1' = "unset" /\ pid2' = "unset"
  /\ spawned' = {} /\ reaped' = [c \in Children |-> 0]
  /\ builtin' = FALSE /\ chdirReq' = FALSE /\ diag' = {} /\ reopened' = {}
  /\ synerr' = FALSE /\ openfail' = FALSE /\ deref0' = FALSE
  /\ cwd0' = cwd
  /\ buf' = IF \A p \in Procs : fds[p] = {} THEN 0 ELSE buf
  /\ UNCHANGED <<fds, shellVars>>

\* ------------------------------------------------------ execute_pipe
\* char *lhs[pipe_idx + 1]: the slots before the pipe symbol, then NULL
lhs_of(a, pipe_idx) ==
  [i \in 0..pipe_idx |-> IF i < pipe_idx THEN a[i] ELSE NULL]
\* char *rhs[num_args - pipe_idx]: the slots after the pipe symbol, then NULL
rhs_of(a, pipe_idx, n) ==
  [i \in 0..(n - pipe_idx - 1) |-> IF i < n - pipe_idx - 1 THEN a[i + pipe_idx + 1] ELSE NULL]

ReadHolders  == {p \in Procs : fds[p] \cap {"fd0", "stdin"} # {}}
WriteHolders == {p \in Procs : fds[p] \cap {"fd1", "stdout"} # {}}

\* the split into lhs / rhs and pipe(fd); a failure of pipe() is fatal
execute_pipe ==
  /\ pc = "pipe"
  /\ \/ /\ fds' = [fds EXCEPT !["shell"] = @ \cup {"fd0", "fd1"}]
        /\ buf' = 0
        /\ pc' = "fork1"
        /\ diag' = diag
     \/ /\ pc' = "exited"
        /\ diag' = diag \cup {"pipe"}
        /\ UNCHANGED <<fds, buf>>
  /\ UNCHANGED <<memVars, lineVars, procVars, pid1, pid2, shellVars,
                 spawned, reaped, builtin, chdirReq, reopened, synerr, openfail, deref0, cwd0>>

\* pid1 = fork(): the result is not checked for -1
PipeFork1 ==
  /\ pc = "fork1"
  /\ \/ /\ Spawn("left", "setup", ExecView(lhs_of(args, find_pipe_idx(num_args, args))))
        /\ pid1' = "left"
     \/ /\ pid1' = FORK_ERR
        /\ UNCHANGED <<cst, argv, fds, spawned>>
  /\ pc' = "fork2"
  /\ UNCHANGED <<memVars, lineVars, status, plan, pid2, buf, shellVars,
                 reaped, builtin, chdirReq, diag, reopened, synerr, openfail, deref0, cwd0>>

\* pid2 = fork(): the result is not checked for -1
PipeFork2 ==
  /\ pc = "fork2"
  /\ \/ /\ Spawn("right", "setup",
                 ExecView(rhs_of(args, find_pipe_idx(num_args, args), num_args)))
        /\ pid2' = "right"
     \/ /\ pid2' = FORK_ERR
        /\ UNCHANGED <<cst, argv, fds, spawned>>
  /\ pc' = "close0"
  /\ UNCHANGED <<memVars, lineVars, status, plan, pid1, buf, shellVars,
                 reaped, builtin, chdirReq, diag, reopened, synerr, openfail, deref0, cwd0>>

\* process p closes descriptor d
Close(p, d) == fds' = [fds EXCEPT ![p] = @ \ {d}]

\* mutant of ParentClose0: the parent forgets close(fd[0])
ParentClose0_forgotten ==
  /\ pc = "close0"
  /\ pc' = "close1"
  /\ UNCHANGED <<memVars, lineVars, procVars, pipeVars, histVars, shellVars>>

\* the parent's close(fd[0])
ParentClose0 ==
  /\ pc = "close0"
  /\ Close("shell", "fd0")
  /\ pc' = "close1"
  /\ UNCHANGED <<memVars, lineVars, procVars, pid1, pid2, buf, histVars, shellVars>>

\* mutant of ParentClose1: the parent forgets close(fd[1])
ParentClose1_forgotten ==
  /\ pc = "close1"
  /\ pc' = "wait1"
  /\ UNCHANGED <<memVars, lineVars, procVars, pipeVars, histVars, shellVars>>

\* the parent's close(fd[1])
ParentClose1 ==
  /\ pc = "close1"
  /\ Close("shell", "fd1")
  /\ pc' = "wait1"
  /\ UNCHANGED <<memVars, lineVars, procVars, pid1, pid2, buf, histVars, shellVars>>

\* waitpid(p, NULL, 0).  p = -1 (a failed fork) waits for ANY child; with no
\* such child the call fails at once (ECHILD)
waitpid(p) ==
  IF p = FORK_ERR
    THEN IF Live = {} THEN UNCHANGED <<cst, status, reaped>>
         ELSE \E c \in Live : cst[c] = "zombie" /\ Reap(c)
  ELSE IF p \notin Live THEN UNCHANGED <<cst, status, reaped>>
  ELSE cst[p] = "zombie" /\ Reap(p)

\* mutant of PipeWait1: the first wait is for the right child
PipeWait1_waits_right ==
  /\ pc = "wait1"
  /\ waitpid(pid2)
  /\ pc' = "wait2"
  /\ UNCHANGED <<memVars, lineVars, argv, plan, pipeVars, shellVars,
                 spawned, builtin, chdirReq, diag, reopened, synerr, openfail, deref0, cwd0>>

PipeWait1 ==
  /\ pc = "wait1"
  /\ waitpid(pid1)
  /\ pc' = "wait2"
  /\ UNCHANGED <<memVars, lineVars, argv, plan, pipeVars, shellVars,
                 spawned, builtin, chdirReq, diag, reopened, synerr, openfail, deref0, cwd0>>

\* mutant of PipeWait2: the second waitpid is missing
PipeWait2_missing ==
  /\ pc = "wait2"
  /\ pc' = "cleanup"
  /\ UNCHANGED <<memVars, lineVars, procVars, pipeVars, histVars, shellVars>>

PipeWait2 ==
  /\ pc = "wait2"
  /\ waitpid(pid2)
  /\ pc' = "cleanup"
  /\ UNCHANGED <<memVars, lineVars, argv, plan, pipeVars, shellVars,
                 spawned, builtin, chdirReq, diag, reopened, synerr, openfail, deref0, cwd0>>

\* ------------------------------------------------------------ children
\* dup2(fd, std): std becomes a copy of fd when fd is open
Dup2(held, fd, std) == IF fd \in held THEN held \cup {std} ELSE held

\* the left child between fork and execvp:
\* close(fd[0]); dup2(fd[1], STDOUT_FILENO); close(fd[1])
left_setup(held) == Dup2(held \ {"fd0"}, "fd1", "stdout") \ {"fd1"}

\* the right child between fork and execvp:
\* close(fd[1]); dup2(fd[0], STDIN_FILENO); close(fd[0])
right_setup(held) == Dup2(held \ {"fd1"}, "fd0", "stdin") \ {"fd0"}

\* a child's steps between fork and execvp touch only its own descriptor
\* table; they are taken as one step
ChildSetup(c, newfds) ==
  /\ cst[c] = "setup"
  /\ cst' = [cst EXCEPT ![c] = "exec"]
  /\ fds' = [fds EXCEPT ![c] = newfds]
  /\ UNCHANGED <<memVars, pc, lineVars, argv, status, plan, pid1, pid2, buf, histVars, shellVars>>

LeftSetup  == ChildSetup("left", left_setup(fds["left"]))
RightSetup == ChildSetup("right", right_setup(fds["right"]))

\* what a program may do once exec'ed: the left one writes plan chunks to its
\* stdout, the right one reads its stdin to end-of-input (1) or ignores it (0)
Plans(c) == IF c = "left" THEN 0..MaxWrites
            ELSE IF c = "right" THEN {0, 1}
            ELSE {0}

\* the process ends: its descriptors are closed, it awaits reaping
Terminate(c, st) ==
  /\ cst' = [cst EXCEPT ![c] = "zombie"]
  /\ status' = [status EXCEPT ![c] = st]
  /\ fds' = [fds EXCEPT ![c] = {}]

\* execvp(v[0], v).  With an empty vector v[0] is NULL and the call is
\* undefined: the child is killed, or the call fails
child_exec(c) ==
  /\ cst[c] = "exec"
  /\ \/ /\ argv[c] # <<>>
        /\ \E pl \in Plans(c) :
             /\ cst' = [cst EXCEPT ![c] = "run"]
             /\ plan' = [plan EXCEPT ![c] = pl]
        /\ UNCHANGED <<status, fds>>
     \/ /\ cst' = [cst EXCEPT ![c] = "execfail"]
        /\ UNCHANGED <<status, fds, plan>>
     \/ /\ argv[c] = <<>>
        /\ Terminate(c, SIGSEGV_STATUS)
        /\ plan' = plan
  /\ UNCHANGED <<memVars, pc, lineVars, argv, pid1, pid2, buf, histVars, shellVars>>

ExecDiag(c) == IF c = "left" THEN "execvp lhs"
               ELSE IF c = "right" THEN "execvp rhs"
               ELSE "execvp"

\* mutant of child_exec_fail: the exit after perror is missing, the child
\* returns from execute_cmd into the shell's loop
child_exec_fail_returns(c) ==
  /\ cst[c] = "execfail"
  /\ diag' = diag \cup {ExecDiag(c)}
  /\ cst' = [cst EXCEPT ![c] = "cleanup"]
  /\ UNCHANGED <<memVars, pc, lineVars, argv, status, plan, pipeVars, shellVars,
                 spawned, reaped, builtin, chdirReq, reopened, synerr, openfail, deref0, cwd0>>

\* execvp returned: perror(...); exit(EXIT_FAILURE)
child_exec_fail(c) ==
  /\ cst[c] = "execfail"
  /\ diag' = diag \cup {ExecDiag(c)}
  /\ Terminate(c, EXIT_FAILURE)
  /\ UNCHANGED <<memVars, pc, lineVars, argv, plan, pid1, pid2, buf, shellVars,
                 spawned, reaped, builtin, chdirReq, reopened, synerr, openfail, deref0, cwd0>>

\* the left program writes a chunk: killed by SIGPIPE when nobody holds the
\* read end, blocked while the pipe is full
prog_write ==
  /\ cst["left"] = "run" /\ plan["left"] > 0
  /\ \/ /\ ReadHolders = {}
        /\ Terminate("left", SIGPIPE_STATUS)
        /\ UNCHANGED <<plan, buf>>
     \/ /\ ReadHolders # {} /\ buf < PipeCap
        /\ buf' = buf + 1
        /\ plan' = [plan EXCEPT !["left"] = @ - 1]
        /\ UNCHANGED <<cst, status, fds>>
  /\ UNCHANGED <<memVars, pc, lineVars, argv, pid1, pid2, histVars, shellVars>>

\* the right program reads a chunk, or sees end-of-input once the pipe is
\* empty and nobody holds the write end; otherwise it blocks
prog_read ==
  /\ cst["right"] = "run" /\ plan["right"] = 1
  /\ \/ /\ buf > 0 /\ buf' = buf - 1 /\ plan' = plan
     \/ /\ buf = 0 /\ WriteHolders = {}
        /\ plan' = [plan EXCEPT !["right"] = 0] /\ buf' = buf
  /\ UNCHANGED <<memVars, pc, lineVars, cst, argv, status, pid1, pid2, fds, histVars, shellVars>>

\* a program that has nothing left to do exits
prog_exit(c) ==
  /\ cst[c] = "run" /\ plan[c] = 0
  /\ \E st \in {0, EXIT_FAILURE} : Terminate(c, st)
  /\ UNCHANGED <<memVars, pc, lineVars, argv, plan, pid1, pid2, buf, histVars, shellVars>>

\* ------------------------------------------------------- specification
ShellStep ==
  \/ Quit \/ execute_help \/ parse_cmd \/ execute_cmd
  \/ RedirectInput \/ OpenInput \/ RedirectOutput \/ OpenOutput
  \/ Dispatch \/ Fork \/ Wait \/ Cleanup \/ Prompt
  \/ execute_pipe \/ PipeFork1 \/ PipeFork2 \/ ParentClose0 \/ ParentClose1
  \/ PipeWait1 \/ PipeWait2

LeftStep  == LeftSetup \/ prog_write
RightStep == RightSetup \/ prog_read
ChildStep(c) == child_exec(c) \/ child_exec_fail(c) \/ prog_exit(c)

Next ==
  \/ ShellStep
  \/ LeftStep
  \/ RightStep
  \/ \E c \in Children : ChildStep(c)

Spec == Init /\ [][Next]_vars

\* every process that can take a step eventually takes one (the scheduler
\* starves nobody); programs run by the children terminate
Fairness ==
  /\ WF_vars(ShellStep)
  /\ WF_vars(LeftStep)
  /\ WF_vars(RightStep)
  /\ \A c \in Children : WF_vars(ChildStep(c))

FairSpec == Spec /\ Fairness

\* ================================================================ claims
\* the line being processed, as it was tokenized
HasPipe  == \E i \in 1..n0 : toks[i] = BAR
PipePos  == CHOOSE i \in 1..n0 : toks[i] = BAR /\ \A j \in 1..(i - 1) : toks[j] # BAR
Range(f) == {f[x] : x \in DOMAIN f}

\* C1: a pipe-free line whose redirection scan hits a syntax error executes
\* nothing: no child is spawned, the built-in does not run, no stream of the
\* shell is reopened, the diagnostic is written and the shell goes on.  (A
\* shell that died printing the NULL operand is left aside: the statement is
\* about the shell that did print it.)
C1_SyntaxErrorRunsNothing ==
  (synerr /\ pc # "crashed") =>
     /\ spawned = {} /\ ~builtin /\ reopened = {}
     /\ "Syntax error" \in diag
     /\ pc \notin Dead

\* C2: whenever the loop is about to read a line, the shell's stdin and stdout
\* are bound to the terminal
C2_StreamsOnTtyAtRead ==
  pc = "read" => stdinB = "tty" /\ stdoutB = "tty"

\* C3: on a line with a `|` token no redirection is resolved and no stream is
\* reopened; the left child is exec'ed with exactly the tokens before the
\* first `|`, the right child with exactly the tokens after it
C3_PipeSplitsLiterally ==
  HasPipe =>
     /\ reopened = {} /\ ~synerr /\ pathAlloc = {}
     /\ num_args = n0 /\ \A i \in 0..n0 : args[i] = (IF i < n0 THEN i + 1 ELSE NULL)
     /\ "single" \notin spawned
     /\ "left" \in spawned => argv["left"] = SubSeq(toks, 1, PipePos - 1)
     /\ "right" \in spawned => argv["right"] = SubSeq(toks, PipePos + 1, n0)

\* C3 witness: both children of a piped line run their programs, and the
\* left one was handed a literal `>` (or `<`, or a later `|`) argument
C3_Witness ==
  /\ HasPipe
  /\ cst["left"] = "run" /\ cst["right"] = "run"
  /\ Range(argv["left"]) \cap {LT, GT} # {}
  /\ argv["right"] # <<>>

\* C4: a vector left empty by redirection extraction is a no-op: args[0] is
\* not read as a command name, the built-in does not run, no child is spawned,
\* the shell goes on
C4_EmptyVectorIsNoOp ==
  (n0 > 0 /\ num_args = 0) =>
     /\ ~deref0 /\ ~builtin /\ spawned = {}
     /\ pc \notin Dead

\* ---------------------------------------------------------------- C5
InPipe == pc \in {"fork1", "fork2", "close0", "close1", "wait1", "wait2"}
Running(c) == cst[c] \in {"setup", "exec", "execfail", "run"}

\* C5: in the piped path every party closes the pipe ends it does not use:
\* once the parent waits, the right child has taken its role and the left child
\* has terminated, nobody holds the write end; when the parent is done waiting
\* every child it spawned has been reaped; and (under fairness, the programs
\* terminating) a piped line always brings the parent back to the read loop
C5_PipeCompletes ==
  /\ []((pc \in {"wait1", "wait2"} /\ ~Running("left") /\ cst["right"] # "setup")
          => WriteHolders = {})
  /\ []((pc = "cleanup" /\ HasPipe) => \A c \in spawned : cst[c] = "reaped")
  /\ (InPipe ~> (pc = "read"))

\* C5 witness: the left child has terminated, the parent waits, and the right
\* program, blocked on an empty pipe, is about to see end-of-input
C5_Witness ==
  /\ pc \in {"wait1", "wait2"}
  /\ cst["left"] \in {"zombie", "reaped"}
  /\ cst["right"] = "run" /\ plan["right"] = 1
  /\ buf = 0 /\ WriteHolders = {}

\* ---------------------------------------------------------------- C6
ForkFailed == "fork" \in diag \/ FORK_ERR \in {pid1, pid2}

\* C6: a failed fork, in the single-command path or for either child of the
\* piped path, is reported and the shell stays alive
C6_ForkFailureKeepsShell ==
  ForkFailed => ("fork" \in diag /\ pc \notin Dead)

\* ---------------------------------------------------------------- C7
\* C7: when a redirect target fails to open, no child is spawned, the built-in
\* does not run, no redirection path string stays allocated, and the shell
\* goes on to the next line
C7_OpenFailureAbortsLine ==
  openfail =>
     /\ spawned = {} /\ ~builtin /\ pathAlloc = {}
     /\ pc \notin Dead

\* ---------------------------------------------------------------- C8
ChildPCs == {"none", "setup", "exec", "execfail", "run", "zombie", "reaped"}

\* C8: no child ever executes the shell's own code (so the shell is the only
\* process that ever runs the read loop); a child whose execvp failed leaves
\* that state only by reporting and terminating with EXIT_FAILURE; and reaping
\* a child, whatever its status, never ends the shell and always takes it to
\* the same next step
C8_ExecFailureStaysInChild ==
  /\ [](\A c \in Children : cst[c] \in ChildPCs /\ cst[c] \notin ShellPCs)
  /\ [][\A c \in Children :
          (cst[c] = "execfail" /\ cst'[c] # "execfail") =>
             /\ cst'[c] = "zombie"
             /\ status'[c] = EXIT_FAILURE
             /\ ExecDiag(c) \in diag']_vars
  /\ [][\A c \in Children :
          (cst[c] = "zombie" /\ cst'[c] = "reaped") =>
             /\ pc' \notin Dead
             /\ pc' = (IF pc = "wait1" THEN "wait2" ELSE "cleanup")]_vars

\* C8 witness: a child whose execvp failed has reported it and is a zombie with
\* status EXIT_FAILURE while the shell waits
C8_Witness ==
  \E c \in Children :
     /\ cst[c] = "zombie" /\ status[c] = EXIT_FAILURE
     /\ ExecDiag(c) \in diag
     /\ pc \in {"wait", "wait1", "wait2"}

\* ---------------------------------------------------------------- C9
FirstIsCd == n0 > 0 /\ toks[1] = CD

\* C9 as stated: a line whose first argument is `cd` never spawns a child
C9_CdNeverSpawns ==
  FirstIsCd => spawned = {}

\* C9 amended: a pipe-free line whose first argument is `cd` never spawns a child
C9_PipeFreeCdNeverSpawns ==
  (FirstIsCd /\ ~HasPipe) => spawned = {}

\* C9 witness: the built-in has run for a pipe-free `cd` line, no child exists
C9_Witness ==
  /\ FirstIsCd /\ ~HasPipe
  /\ pc = "cleanup" /\ builtin /\ spawned = {}

\* ---------------------------------------------------------------- C10
\* C10: `cd` without operand reports the missing operand and never calls
\* chdir; a chdir that fails is reported; in both cases the working directory
\* is the one the line started with and the shell goes on
C10_FailedCdKeepsCwdAndShell ==
  builtin =>
     /\ num_args < 2 =>
          /\ "cd: missing operand" \in diag /\ ~chdirReq
          /\ cwd = cwd0 /\ pc \notin Dead
     /\ (chdirReq /\ cwd # Str(args[1])) => "cd" \in diag
     /\ "cd" \in diag => (cwd = cwd0 /\ pc \notin Dead)

\* ---------------------------------------------------------------- C11
\* the whitespace-split of a line, stated without the tokenizer: the maximal
\* runs of characters other than space and newline, in order
RunStarts(s) == {b \in 1..Len(s) : s[b] \notin {" ", "\n"} /\ (b = 1 \/ s[b - 1] \in {" ", "\n"})}
RunEnd(s, b) == CHOOSE e \in b..Len(s) :
                  /\ \A k \in b..e : s[k] \notin {" ", "\n"}
                  /\ (e = Len(s) \/ s[e + 1] \in {" ", "\n"})
RunSeq(s) ==
  LET B == RunStarts(s)
      nth(i) == CHOOSE b \in B : Cardinality({x \in B : x < b}) = i - 1
  IN  [i \in 1..Cardinality(B) |-> SubSeq(s, nth(i), RunEnd(s, nth(i)))]
Processing == line # <<>>
NoMetaToken == \A i \in 1..n0 : toks[i] \notin {LT, GT, BAR}

\* C11: the tokenizer's vector is the sequence of maximal runs of non-blank
\* characters of the line, none empty; an all-blank line gives the empty
\* vector and executes nothing; on a line without metacharacter token the
\* spawned command is handed exactly that sequence
C11_TokensAreMaximalRuns ==
  Processing =>
     /\ toks = RunSeq(line)
     /\ n0 = Len(toks) /\ \A i \in 1..n0 : toks[i] # <<>>
     /\ (\A k \in 1..Len(line) : line[k] \in {" ", "\n"}) =>
          /\ toks = <<>>
          /\ spawned = {} /\ ~builtin /\ ~deref0 /\ reopened = {} /\ diag = {}
          /\ pc \notin Dead
     /\ (NoMetaToken /\ "single" \in spawned) => argv["single"] = RunSeq(line)

\* C11 witness: a line typed with leading or repeated blanks and no
\* metacharacter token has spawned its command with two arguments
C11_Witness ==
  /\ Processing /\ NoMetaToken
  /\ Len(toks) = 2 /\ Len(line) > Len(Join(toks))
  /\ "single" \in spawned /\ cst["single"] = "run"

\* ---------------------------------------------------------------- C12
\* position in the line of the first token equal to sym (0: none)
FirstTok(sym) ==
  IF \E i \in 1..n0 : toks[i] = sym
    THEN CHOOSE i \in 1..n0 : toks[i] = sym /\ \A j \in 1..(i - 1) : toks[j] # sym
    ELSE 0
\* the first sym of the line is its last token or is followed by `<` or `>`
BadFollow(sym) ==
  FirstTok(sym) # 0 /\ (FirstTok(sym) = n0 \/ toks[FirstTok(sym) + 1] \in {LT, GT})
\* path is the token that followed the first sym in the line, not a metacharacter
FollowsFirst(sym, path) ==
  /\ FirstTok(sym) # 0 /\ FirstTok(sym) < n0
  /\ path = toks[FirstTok(sym) + 1]
  /\ path \notin {LT, GT, BAR}

\* C12: on a pipe-free line whose first `<` (first `>`) is the last token or is
\* followed by `<` or `>`, no target is ever captured for that symbol and the
\* scan for it ends with the syntax error; a captured target is the token that
\* followed the first such symbol in the line and is not a metacharacter
C12_RedirectionValidated ==
  (Processing /\ ~HasPipe) =>
     /\ BadFollow(LT) =>
          /\ input_file = <<>>
          /\ pc = "redirect_output" => synerr
     /\ BadFollow(GT) =>
          /\ output_file = <<>>
          /\ pc = "dispatch" => synerr
     /\ input_file # <<>> => FollowsFirst(LT, input_file)
     /\ output_file # <<>> => FollowsFirst(GT, output_file)

\* ---------------------------------------------------------------- C13
PipePCs == {"pipe", "fork1", "fork2", "close0", "close1", "wait1", "wait2"}

\* C13: only whole tokens are metacharacters: the piped path is taken only
\* when some token is exactly `|`, a target is captured only when some token
\* is exactly `<` (`>`), and a syntax error is reported only when a token that
\* is exactly `<` or `>` is the last token or is followed by a token that is
\* exactly `<` or `>`
C13_OnlyWholeTokensAreSymbols ==
  Processing =>
     /\ (pc \in PipePCs \/ spawned \cap {"left", "right"} # {}) => HasPipe
     /\ input_file # <<>> => FirstTok(LT) # 0
     /\ output_file # <<>> => FirstTok(GT) # 0
     /\ synerr => \E i \in 1..n0 :
                    toks[i] \in {LT, GT} /\ (i = n0 \/ toks[i + 1] \in {LT, GT})

\* ---------------------------------------------------------------- C14
\* C14: once the free loop of a line has run, every token string the
\* tokenizer allocated for the line has been freed exactly once
C14_TokensFreedExactlyOnce ==
  pc \in {"prompt", "crashed"} => \A p \in DOMAIN freed : freed[p] = 1

\* ---------------------------------------------------------------- C15
\* the order of the parent's steps in execute_pipe
PipeSucc(at) ==
  CASE at = "pipe"   -> {"fork1", "exited"}
    [] at = "fork1"  -> {"fork2"}
    [] at = "fork2"  -> {"close0"}
    [] at = "close0" -> {"close1"}
    [] at = "close1" -> {"wait1"}
    [] at = "wait1"  -> {"wait2"}
    [] at = "wait2"  -> {"cleanup"}
BothSpawned == pid1 = "left" /\ pid2 = "right"
NoneReaped == \A c \in Children : reaped[c] = 0

\* C15: in the piped path the parent creates the pipe, spawns the left child,
\* spawns the right child, closes both pipe ends, waits for the left child and
\* then for the right child, in this order: the pipe exists and no child does
\* at the first fork, only the left child at the second, nobody has been
\* waited for until both ends are closed, the parent holds no pipe end while it
\* waits, and with both children spawned the left one is reaped by the first
\* wait and the right one by the second
C15_PipeEventOrder ==
  /\ [][(pc \in PipePCs /\ pc' # pc) => pc' \in PipeSucc(pc)]_vars
  /\ [](pc = "fork1" => /\ fds["shell"] = {"fd0", "fd1"}
                        /\ spawned = {} /\ pid1 = "unset" /\ pid2 = "unset")
  /\ [](pc = "fork2" => /\ fds["shell"] = {"fd0", "fd1"}
                        /\ pid1 # "unset" /\ pid2 = "unset"
                        /\ "right" \notin spawned /\ NoneReaped)
  /\ [](pc \in {"close0", "close1"} => pid1 # "unset" /\ pid2 # "unset" /\ NoneReaped)
  /\ [](pc \in {"wait1", "wait2"} => fds["shell"] = {})
  /\ []((pc \in PipePCs /\ ~NoneReaped) => pid1 # "unset" /\ pid2 # "unset")
  /\ []((pc = "wait1" /\ BothSpawned) => spawned = {"left", "right"} /\ NoneReaped)
  /\ []((pc = "wait2" /\ BothSpawned) => reaped["left"] = 1 /\ reaped["right"] = 0)
  /\ []((pc = "cleanup" /\ BothSpawned) => reaped["left"] = 1 /\ reaped["right"] = 1)

\* C15 witness: both children were spawned, the left one has been reaped and
\* the parent, holding no pipe end, waits for the right one, which still runs
C15_Witness ==
  /\ pc = "wait2" /\ BothSpawned
  /\ reaped["left"] = 1 /\ cst["right"] = "run"
  /\ fds["shell"] = {}

\* ---------------------------------------------------------------- C16
\* C16: a child is reaped at most once, only after it has terminated, and only
\* if the shell spawned it; once the shell is done waiting (and whenever it
\* reads a line) every child spawned for the line has been reaped exactly once
\* and no child exists
C16_EveryChildReapedOnce ==
  /\ [](\A c \in Children : reaped[c] <= 1 /\ (reaped[c] = 1 => c \in spawned))
  /\ [][\A c \in Children :
          (cst[c] # "reaped" /\ cst'[c] = "reaped") => cst[c] = "zombie"]_vars
  /\ [](pc \in {"cleanup", "prompt", "read"} =>
          /\ \A c \in spawned : reaped[c] = 1 /\ cst[c] = "reaped"
          /\ Live = {})

\* C16 witness: the first fork of a piped line failed, the right child was
\* spawned, has terminated and has been reaped, and the shell is done waiting
C16_Witness ==
  /\ pc = "cleanup"
  /\ pid1 = FORK_ERR /\ pid2 = "right"
  /\ spawned = {"right"} /\ reaped["right"] = 1

\* ---------------------------------------------------------------- C17
\* the vector execute_cmd holds: the pointers in slots 0 .. n-1
Vector(n, a) == [k \in 1..n |-> a[k - 1]]
\* position in vector v of the first pointer whose string is sym
FirstIn(v, sym) ==
  CHOOSE i \in 1..Len(v) : Str(v[i]) = sym /\ \A j \in 1..(i - 1) : Str(v[j]) # sym
\* v without its elements i and i + 1
WithoutPair(v, i) == SubSeq(v, 1, i - 1) \o SubSeq(v, i + 2, Len(v))

\* C17: a successful extraction leaves the current vector without the first
\* occurrence of its symbol and without the operand after it, everything else
\* in order (so later occurrences stay as arguments), the count less by two,
\* NULL at the new count, and captures that operand; the output extraction
\* starts only after the input extraction is over, on the vector that one left
C17_ExtractionRemovesFirstPair ==
  /\ [][(pc = "redirect_input" /\ pc' = "open_input") =>
          LET v == Vector(num_args, args) IN
          /\ num_args' = num_args - 2
          /\ Vector(num_args', args') = WithoutPair(v, FirstIn(v, LT))
          /\ args'[num_args'] = NULL
          /\ input_file' = Str(v[FirstIn(v, LT) + 1])]_vars
  /\ [][(pc = "redirect_output" /\ pc' = "open_output") =>
          LET v == Vector(num_args, args) IN
          /\ num_args' = num_args - 2
          /\ Vector(num_args', args') = WithoutPair(v, FirstIn(v, GT))
          /\ args'[num_args'] = NULL
          /\ output_file' = Str(v[FirstIn(v, GT) + 1])]_vars
  /\ [][(pc' = "redirect_output" /\ pc # "redirect_output") =>
          pc \in {"redirect_input", "open_input"} /\ UNCHANGED <<args, num_args>>]_vars
  /\ [](pc \in {"redirect_input", "open_input"} =>
          output_file = <<>> /\ "stdout" \notin reopened)
  /\ [](pc = "redirect_input" => num_args = n0 /\ Vector(num_args, args) = [k \in 1..n0 |-> k])

\* C17 witness: the input extraction succeeded and the output extraction has
\* just succeeded on the vector it left
C17_Witness ==
  /\ pc = "open_output"
  /\ input_file # <<>> /\ output_file # <<>>
  /\ "stdin" \in reopened
  /\ num_args = n0 - 4

\* ---------------------------------------------------------------- C18
\* C18: the tokenizer's sentinel store args[num_args] = NULL is inside the
\* allocation: the token count is below the capacity
C18_SentinelInsideCapacity ==
  Processing => n0 < capacity

\* ---------------------------------------------------------------- C19
\* C19: the shell holds an open pipe descriptor only inside execute_pipe,
\* between pipe() and its two close() calls; when it is done with a line, and
\* whenever it reads one, it holds none
C19_NoPipeEndLeftOpen ==
  /\ pc \notin {"fork1", "fork2", "close0", "close1"} => fds["shell"] = {}
  /\ pc \in {"cleanup", "prompt", "read"} => fds["shell"] = {}

\* C19 witness: a piped line is over whose first fork failed and whose right
\* child failed to exec; the shell holds no pipe end
C19_Witness ==
  /\ pc = "prompt" /\ HasPipe
  /\ pid1 = FORK_ERR /\ "execvp rhs" \in diag
  /\ fds["shell"] = {}

\* ---------------------------------------------------------------- C20
\* C20: every vector handed to execvp, for the single command or on either
\* side of a pipe, has at least one element
C20_ExecVectorNonEmpty ==
  \A c \in spawned : argv[c] # <<>>

====
